---- MODULE Spec2Model ----
(***************************************************************************)
(* Storage layer of the pastebin: the three-way storage module (memory,    *)
(* JSON flat files, Upstash Redis) and the two-way module src/lib/         *)
(* storage.ts (Redis, memory), with the clock, the process environment,    *)
(* the file system under data/pastes and the remote key-value service.     *)
(* On top of it: the POST handler of src/app/page.tsx, failing file-system *)
(* calls, corrupt files, and facade calls interleaved at their awaits.     *)
(*                                                                         *)
(* Strings that the code inspects character by character (paste ids, file  *)
(* names, path segments) are sequences of tokens; a token is one character *)
(* or one fixed piece of text (".json", "paste:", "cwd").  The free text   *)
(* of a paste (title, content, language) is a record [len, ws, text]: its  *)
(* length, how many of its characters are leading or trailing white space, *)
(* and a name for its characters.  Times are integers in milliseconds.     *)
(***************************************************************************)
EXTENDS Integers, Sequences, FiniteSets, TLC

\* ---------------------------------------------------------------- bounds
\* The clock reads TickMs, 2*TickMs, ..., MaxTicks*TickMs.
MaxTicks == 3
TickMs == 500
\* Longest raw id of the identifier-safety specification SpecPath.
MaxIdLen == 3
\* The facade calls of the concurrency specification SpecConc.
MaxCalls == 3

\* ------------------------------------------------------- program constants
\* Math.ceil((paste.expiresAt - Date.now()) / 1000)
MsPerSec == 1000
\* JavaScript null in the number-or-null field expiresAt (timestamps are >= 0).
Null == -1
\* process.env.X when X is not set.
Undef == "<unset>"

\* ---------------------------------------------------------------- helpers
Range(s) == {s[i] : i \in DOMAIN s}

\* The option type of Paste | null: <<>> is null, <<p>> is the record p.
None == <<>>
Some(p) == <<p>>

\* Sequences over S of length at most n.
SeqsUpTo(S, n) == UNION {[1..k -> S] : k \in 0..n}

\* All orders in which the elements of the finite set S can be enumerated.
RECURSIVE Orders(_)
Orders(S) ==
  IF S = {} THEN {<<>>}
  ELSE UNION {{<<x>> \o o : o \in Orders(S \ {x})} : x \in S}

\* f without the key k.
Without(f, k) == [x \in DOMAIN f \ {k} |-> f[x]]
\* f with key k bound to v.
With(f, k, v) == [x \in DOMAIN f \cup {k} |-> IF x = k THEN v ELSE f[x]]

\* A value in a number field that is neither a number nor null: a function, or
\* the string that `number + function` makes.
NotNumber == -2

IsNumber(n) == n >= 0

\* a + b in JavaScript, a a number: a string unless b is a number too.
Plus(a, b) == IF IsNumber(b) THEN a + b ELSE NotNumber

\* JavaScript truthiness of a number-or-null value: null and 0 are falsy.
Truthy(n) == n # Null /\ n # 0

\* A string of the free text of a paste.
Str(s) == [len |-> Len(s), ws |-> 0, text |-> s]

\* s.trim()
trim(s) == [len |-> s.len - s.ws, ws |-> 0, text |-> s.text]

\* s.slice(0, n)
slice(s, n) ==
  IF s.len <= n THEN s
  ELSE [len |-> n, ws |-> IF s.ws <= n THEN s.ws ELSE n, text |-> s.text]

\* Math.floor(a / b) for b > 0.
Floor(a, b) == a \div b

\* Math.ceil(a / b) for b > 0.
Ceil(a, b) == IF a >= 0 THEN (a + b - 1) \div b ELSE -((-a) \div b)

\* ------------------------------------------------------------ the Paste
\* Paste: the six fields of the interface.
PasteFields == {"id", "title", "content", "language", "createdAt", "expiresAt"}

\* ------------------------------------------------- storage mode detection
StorageModes == {"redis", "file", "memory"}

\* `x && ...` on an environment variable: unset and "" are falsy.
EnvTruthy(v) == v # Undef /\ v # ""

\* getStorageMode() without the STORAGE_MODE override.
getStorageModeNoOverride(e) ==
  IF EnvTruthy(e.url) /\ EnvTruthy(e.token) THEN "redis" ELSE "file"

\* getStorageMode() of the three-way module, as a function of process.env.
getStorageMode(e) ==
  IF EnvTruthy(e.mode) /\ e.mode \in StorageModes THEN e.mode
  ELSE IF EnvTruthy(e.url) /\ EnvTruthy(e.token) THEN "redis"
  ELSE "file"

\* hasRedis() of the two-way module src/lib/storage.ts.
hasRedis(e) == EnvTruthy(e.url) /\ EnvTruthy(e.token)

\* The two storage modules of the repository.
Modules == {"three", "two"}

\* The backend a facade call of module m is dispatched to.
dispatch(m, e) ==
  IF m = "three" THEN getStorageMode(e)
  ELSE IF hasRedis(e) THEN "redis" ELSE "memory"

\* ------------------------------------------------------ in-memory storage
\* memStore is a JavaScript Map: a sequence of entries [key, val] in insertion
\* order, with at most one entry per key.
memIndex(store, id) ==
  IF \E i \in DOMAIN store : store[i].key = id
  THEN CHOOSE i \in DOMAIN store : store[i].key = id
  ELSE 0

\* Map.get(id) ?? null
mapGet(store, id) ==
  IF memIndex(store, id) = 0 THEN None ELSE Some(store[memIndex(store, id)].val)

\* Map.set that adds an entry without looking for the key.
mapSetAppend(store, id, v) == Append(store, [key |-> id, val |-> v])

\* Map.set(id, v): an existing key keeps its place.
mapSet(store, id, v) ==
  IF memIndex(store, id) = 0 THEN Append(store, [key |-> id, val |-> v])
  ELSE [store EXCEPT ![memIndex(store, id)] = [key |-> id, val |-> v]]

\* Map.delete that leaves the entry in place.
mapDeleteKeeps(store, id) == store

\* Map.delete(id): the map without the key.
mapDelete(store, id) == SelectSeq(store, LAMBDA e : e.key # id)

\* The expiry test of memGet and fileGet: expiresAt && expiresAt < Date.now().
\* (A value that is not a number compares false with a number either way.)
expiredOnGet(p, t) ==
  Truthy(p.expiresAt) /\ IsNumber(p.expiresAt) /\ p.expiresAt < t

\* A keep test that keeps every record.
keptOnListAlways(p, t) == TRUE

\* The keep test written with the comparison of the get path.
keptOnListAsGet(p, t) == ~expiredOnGet(p, t)

\* The keep test of getAllPastes: !expiresAt || expiresAt > now.
keptOnList(p, t) ==
  ~Truthy(p.expiresAt) \/ (IsNumber(p.expiresAt) /\ p.expiresAt > t)

\* memGet(id) at time t: the value returned and the map afterwards.
memGet(store, t, id) ==
  LET paste == mapGet(store, id) IN
  IF paste # None /\ expiredOnGet(paste[1], t)
  THEN [ret |-> None, store |-> mapDelete(store, id)]
  ELSE [ret |-> paste, store |-> store]

\* memSet(paste)
memSet(store, paste) == mapSet(store, paste.id, paste)

\* ------------------------------------------------------ JSON file storage
\* The characters the sanitizer keeps: [a-zA-Z0-9_-].
SafeChars ==
  {"a", "b", "c", "d", "e", "f", "g", "h", "i", "j", "k", "l", "m",
   "n", "o", "p", "q", "r", "s", "t", "u", "v", "w", "x", "y", "z",
   "A", "B", "C", "D", "E", "F", "G", "H", "I", "J", "K", "L", "M",
   "N", "O", "P", "Q", "R", "S", "T", "U", "V", "W", "X", "Y", "Z",
   "0", "1", "2", "3", "4", "5", "6", "7", "8", "9", "_", "-"}

\* The fixed extension, one token.
JsonExt == ".json"

\* DATA_DIR = path.join(process.cwd(), "data", "pastes"): a path is a sequence
\* of segments, a segment a sequence of tokens.
DATA_DIR == << <<"cwd">>, <<"data">>, <<"pastes">> >>

\* The segments of a file name, split at "/".
RECURSIVE splitSegments(_, _)
splitSegments(name, cur) ==
  IF name = <<>> THEN <<cur>>
  ELSE IF Head(name) = "/" THEN <<cur>> \o splitSegments(Tail(name), <<>>)
  ELSE splitSegments(Tail(name), Append(cur, Head(name)))

\* path.join's normalisation: "" and "." are dropped, ".." removes the segment
\* before it.
RECURSIVE normalize(_, _)
normalize(done, rest) ==
  IF rest = <<>> THEN done
  ELSE IF Head(rest) = <<>> \/ Head(rest) = <<".">> THEN normalize(done, Tail(rest))
  ELSE IF Head(rest) = <<".", ".">>
    THEN normalize(IF done = <<>> THEN done ELSE SubSeq(done, 1, Len(done) - 1),
                   Tail(rest))
  ELSE normalize(Append(done, Head(rest)), Tail(rest))

\* path.join(dir, name)
pathJoin(dir, name) == normalize(dir, splitSegments(name, <<>>))

\* id.replace(/[^a-zA-Z0-9_-]/g, "")
sanitize(id) == SelectSeq(id, LAMBDA c : c \in SafeChars)

\* getPasteFilePath without the sanitizer.
getPasteFilePathRaw(id) == pathJoin(DATA_DIR, Append(id, JsonExt))

\* getPasteFilePath(id)
getPasteFilePath(id) == pathJoin(DATA_DIR, Append(sanitize(id), JsonExt))

\* JSON.stringify(paste, null, 2): the text is the sequence of members in field
\* order, each a key and a typed JSON value (a string, a number or null).
JStr(s) == [t |-> "string", str |-> s, chars |-> <<>>, num |-> 0]
JChars(c) == [t |-> "string", str |-> Str(""), chars |-> c, num |-> 0]
JNum(n) == [t |-> "number", str |-> Str(""), chars |-> <<>>, num |-> n]
JNull == [t |-> "null", str |-> Str(""), chars |-> <<>>, num |-> 0]

\* JSON.stringify writing every expiresAt as null.
JSONstringifyNoExpiry(paste) ==
  << [key |-> "id", value |-> JChars(paste.id)],
     [key |-> "title", value |-> JStr(paste.title)],
     [key |-> "content", value |-> JStr(paste.content)],
     [key |-> "language", value |-> JStr(paste.language)],
     [key |-> "createdAt", value |-> JNum(paste.createdAt)],
     [key |-> "expiresAt", value |-> JNull] >>

JSONstringify(paste) ==
  << [key |-> "id", value |-> JChars(paste.id)],
     [key |-> "title", value |-> JStr(paste.title)],
     [key |-> "content", value |-> JStr(paste.content)],
     [key |-> "language", value |-> JStr(paste.language)],
     [key |-> "createdAt", value |-> JNum(paste.createdAt)],
     [key |-> "expiresAt",
      value |-> IF paste.expiresAt = Null THEN JNull ELSE JNum(paste.expiresAt)] >>

\* The member of a JSON text with the given key.
member(text, k) == (CHOOSE i \in DOMAIN text : text[i].key = k)

\* JSON.parse(content) of a text JSON.stringify produced.
JSONparse(text) ==
  LET val(k) == text[member(text, k)].value IN
  [id |-> val("id").chars,
   title |-> val("title").str,
   content |-> val("content").str,
   language |-> val("language").str,
   createdAt |-> val("createdAt").num,
   expiresAt |-> IF val("expiresAt").t = "null" THEN Null ELSE val("expiresAt").num]

\* The length of a number written in decimal.
RECURSIVE Digits(_)
Digits(n) == IF n < 10 THEN 1 ELSE 1 + Digits(n \div 10)

\* The length of a JSON value as JSON.stringify writes it, without the quotes:
\* a backslash is written as two characters, the null byte as six.
RECURSIVE charsSize(_)
charsSize(c) ==
  IF c = <<>> THEN 0
  ELSE (IF Head(c) = "\\" THEN 2 ELSE IF Head(c) = "NUL" THEN 6 ELSE 1)
       + charsSize(Tail(c))

valueSize(v) ==
  IF v.t = "null" THEN 4
  ELSE IF v.t = "number" THEN Digits(v.num)
  ELSE v.str.len + charsSize(v.chars)

\* The length of a JSON text, counting the values only: keys, quotes and
\* punctuation have the same length in every text JSON.stringify writes here.
RECURSIVE jsonSize(_)
jsonSize(text) ==
  IF text = <<>> THEN 0 ELSE valueSize(Head(text).value) + jsonSize(Tail(text))

\* The file system.  fs.files maps each existing file's path to the file,
\* fs.dir tells whether the directory DATA_DIR exists, fs.fault is the set of
\* fs calls that currently fail (permissions, a full or broken disk).
\* A file is [text, extra, ino]: its bytes are the JSON text `text` followed by
\* `extra` more bytes (what is left of an older, longer content, or bytes that
\* are not JSON), and ino identifies the file among the files that had this
\* path over time.
FsCalls == {"mkdir", "readFile", "writeFile", "unlink", "readdir"}

EmptyFile(ino) == [text |-> <<>>, extra |-> 0, ino |-> ino]

\* JSON.parse(content) succeeds: the content is one complete JSON text.
parses(file) == file.text # <<>> /\ file.extra = 0

\* fs.readFile(path, "utf-8"): the file read, or None when the call rejects.
fsReadFile(fs, path) ==
  IF path \in DOMAIN fs.files /\ "readFile" \notin fs.fault
  THEN Some(fs.files[path]) ELSE None

\* fs.rm(path, {force: true}): resolves whether or not the file exists.
fsUnlinkForce(fs, path) ==
  [ok |-> "unlink" \notin fs.fault,
   fs |-> IF "unlink" \in fs.fault THEN fs
          ELSE [fs EXCEPT !.files = Without(fs.files, path)]]

\* fs.unlink(path): whether it resolved, and the file system afterwards.
fsUnlink(fs, path) ==
  IF path \in DOMAIN fs.files /\ "unlink" \notin fs.fault
  THEN [ok |-> TRUE, fs |-> [fs EXCEPT !.files = Without(fs.files, path)]]
  ELSE [ok |-> FALSE, fs |-> fs]

\* The first half of fs.writeFile(path, data): open(path, "w") creates the file
\* (as file `ino`) or truncates the existing one; it rejects when the call
\* fails or the directory is missing.  fd is the file the handle refers to.
fsOpenTrunc(fs, path, ino) ==
  IF "writeFile" \in fs.fault \/ ~fs.dir
  THEN [ok |-> FALSE, fs |-> fs, fd |-> ino]
  ELSE LET fd == IF path \in DOMAIN fs.files THEN fs.files[path].ino ELSE ino IN
       [ok |-> TRUE, fs |-> [fs EXCEPT !.files = With(fs.files, path, EmptyFile(fd))],
        fd |-> fd]

\* The second half of fs.writeFile: write(fd, data) puts the text at offset 0
\* of the file the handle refers to and leaves the bytes behind it in place;
\* a file unlinked in the meantime is written to without coming back.
fsWrite(fs, path, fd, data) ==
  IF path \in DOMAIN fs.files /\ fs.files[path].ino = fd
  THEN LET old == fs.files[path]
           left == jsonSize(old.text) + old.extra - jsonSize(data) IN
       [fs EXCEPT !.files = With(fs.files, path,
                                 [text |-> data,
                                  extra |-> IF left > 0 THEN left ELSE 0,
                                  ino |-> fd])]
  ELSE fs

\* fs.writeFile(path, data, "utf-8") with no other call in between.
fsWriteFile(fs, path, data) ==
  LET o == fsOpenTrunc(fs, path, 0) IN
  IF o.ok THEN [ok |-> TRUE, fs |-> fsWrite(o.fs, path, o.fd, data)]
  ELSE [ok |-> FALSE, fs |-> fs]

\* ensureDataDir(): mkdir(DATA_DIR, {recursive: true}), errors ignored.
ensureDataDir(fs) ==
  IF "mkdir" \in fs.fault THEN fs ELSE [fs EXCEPT !.dir = TRUE]

\* fileGet(id) at time t: the value returned, the file system afterwards and the
\* paths passed to fs calls.  A rejected readFile and a failed JSON.parse end in
\* the catch block; a rejected unlink is ignored.
fileGet(fs, t, id) ==
  LET filePath == getPasteFilePath(id)
      content == fsReadFile(fs, filePath) IN
  IF content = None \/ ~parses(content[1])
  THEN [ret |-> None, fs |-> fs, paths |-> {filePath}]
  ELSE LET paste == JSONparse(content[1].text) IN
       IF expiredOnGet(paste, t)
       THEN [ret |-> None, fs |-> fsUnlink(fs, filePath).fs, paths |-> {filePath}]
       ELSE [ret |-> Some(paste), fs |-> fs, paths |-> {filePath}]

\* fileSet with the rejection of writeFile ignored.
fileSetQuiet(fs, paste) ==
  LET made == ensureDataDir(fs)
      filePath == getPasteFilePath(paste.id) IN
  [fs |-> fsWriteFile(made, filePath, JSONstringify(paste)).fs,
   paths |-> {filePath}, threw |-> FALSE]

\* fileSet(paste): the file system afterwards, the paths passed to fs calls and
\* whether writeFile rejected.
fileSet(fs, paste) ==
  LET made == ensureDataDir(fs)
      filePath == getPasteFilePath(paste.id)
      w == fsWriteFile(made, filePath, JSONstringify(paste)) IN
  [fs |-> w.fs, paths |-> {filePath}, threw |-> ~w.ok]

\* ---------------------------------------------------------- Upstash Redis
\* The service: a map from key to [val, exat], val the JSON text of the value
\* and exat the time the key expires at (Null: no TTL).  A key is visible
\* while no TTL is set or the TTL has not elapsed.
KeyPrefix == "paste:"
redisKey(id) == <<KeyPrefix>> \o id

redisLive(entry, t) == entry.exat = Null \/ t < entry.exat

\* redisGet(id): redis.get(`paste:${id}`)
redisGet(r, t, id) ==
  IF redisKey(id) \in DOMAIN r /\ redisLive(r[redisKey(id)], t)
  THEN Some(JSONparse(r[redisKey(id)].val))
  ELSE None

\* redisSet(paste) at time t
redisSet(r, t, paste) ==
  LET ttlSeconds == Ceil(paste.expiresAt - t, MsPerSec) IN
  IF Truthy(paste.expiresAt) /\ IsNumber(paste.expiresAt) /\ ttlSeconds > 0
  THEN With(r, redisKey(paste.id),
            [val |-> JSONstringify(paste), exat |-> t + ttlSeconds * MsPerSec])
  ELSE With(r, redisKey(paste.id), [val |-> JSONstringify(paste), exat |-> Null])

\* Redis.fromEnv() builds the client from the two credential variables; without
\* them the request that follows fails and the facade call rejects.
redisReachable(e) == EnvTruthy(e.url) /\ EnvTruthy(e.token)

\* The service dropping the keys whose TTL has elapsed at time t.
redisExpire(r, t) ==
  [k \in {x \in DOMAIN r : redisLive(r[x], t)} |-> r[k]]

\* -------------------------------------------------------------- public API
\* The stores of the process: st.mem (memStore), st.fs (the file system) and
\* st.redis (the remote service).  Every facade operation yields the value it
\* returns (ret / ok / list), the stores afterwards, the backend that served it,
\* the file paths it passed to fs calls and whether it threw.

\* getPaste(id) of module m under environment e at time t.
getPaste(m, e, st, t, id) ==
  LET mode == dispatch(m, e) IN
  IF mode = "redis"
  THEN IF ~redisReachable(e)
       THEN [ret |-> None, st |-> st, backend |-> mode, paths |-> {}, threw |-> TRUE]
       ELSE [ret |-> redisGet(st.redis, t, id), st |-> st, backend |-> mode,
             paths |-> {}, threw |-> FALSE]
  ELSE IF mode = "file"
  THEN LET g == fileGet(st.fs, t, id) IN
       [ret |-> g.ret, st |-> [st EXCEPT !.fs = g.fs], backend |-> mode,
        paths |-> g.paths, threw |-> FALSE]
  ELSE LET g == memGet(st.mem, t, id) IN
       [ret |-> g.ret, st |-> [st EXCEPT !.mem = g.store], backend |-> mode,
        paths |-> {}, threw |-> FALSE]

\* savePaste(paste)
savePaste(m, e, st, t, paste) ==
  LET mode == dispatch(m, e) IN
  IF mode = "redis"
  THEN IF ~redisReachable(e)
       THEN [st |-> st, backend |-> mode, paths |-> {}, threw |-> TRUE]
       ELSE [st |-> [st EXCEPT !.redis = redisSet(st.redis, t, paste)],
             backend |-> mode, paths |-> {}, threw |-> FALSE]
  ELSE IF mode = "file"
  THEN LET w == fileSet(st.fs, paste) IN
       [st |-> [st EXCEPT !.fs = w.fs], backend |-> mode, paths |-> w.paths,
        threw |-> w.threw]
  ELSE [st |-> [st EXCEPT !.mem = memSet(st.mem, paste)],
        backend |-> mode, paths |-> {}, threw |-> FALSE]

\* pastes.sort((a, b) => b.createdAt - a.createdAt): a stable sort, so records
\* with equal createdAt keep their relative order.
insertDesc(sorted, p) ==
  LET k == Cardinality({i \in DOMAIN sorted : sorted[i].createdAt >= p.createdAt}) IN
  SubSeq(sorted, 1, k) \o <<p>> \o SubSeq(sorted, k + 1, Len(sorted))

RECURSIVE sortDesc(_)
sortDesc(ps) ==
  IF ps = <<>> THEN <<>>
  ELSE insertDesc(sortDesc(SubSeq(ps, 1, Len(ps) - 1)), ps[Len(ps)])

\* The entries fs.readdir(DATA_DIR) returns: the names of the files directly in
\* DATA_DIR (in an order the operating system chooses).
readdir(fs) ==
  {f[Len(f)] : f \in {g \in DOMAIN fs.files :
                        /\ Len(g) = Len(DATA_DIR) + 1
                        /\ SubSeq(g, 1, Len(DATA_DIR)) = DATA_DIR}}

\* file.endsWith(".json")
endsWithJson(file) == file # <<>> /\ file[Len(file)] = JsonExt

\* The loop of getAllPastes in file mode over the directory entries `entries`:
\* a file that cannot be read or parsed is skipped, an expired one unlinked
\* (a rejected unlink is ignored).
RECURSIVE scanFiles(_, _, _, _)
scanFiles(fs, t, entries, acc) ==
  IF entries = <<>> THEN [pastes |-> acc.pastes, fs |-> fs, paths |-> acc.paths]
  ELSE LET file == Head(entries)
           full == pathJoin(DATA_DIR, file) IN
       IF ~endsWithJson(file)
       THEN scanFiles(fs, t, Tail(entries), acc)
       ELSE LET content == fsReadFile(fs, full)
                seen == [acc EXCEPT !.paths = @ \cup {full}] IN
            IF content = None \/ ~parses(content[1])
            THEN scanFiles(fs, t, Tail(entries), seen)
            ELSE LET paste == JSONparse(content[1].text) IN
                 IF keptOnList(paste, t)
                 THEN scanFiles(fs, t, Tail(entries),
                                [seen EXCEPT !.pastes = Append(@, paste)])
                 ELSE scanFiles(fsUnlink(fs, full).fs, t, Tail(entries), seen)

\* The values of memStore that getAllPastes keeps, in iteration order.
memValues(store, t) ==
  LET kept == SelectSeq(store, LAMBDA en : keptOnList(en.val, t)) IN
  [i \in DOMAIN kept |-> kept[i].val]

\* getAllPastes(); `entries` is what fs.readdir returned (file mode).
getAllPastes(m, e, st, t, entries) ==
  LET mode == dispatch(m, e) IN
  IF mode = "memory"
  THEN [list |-> sortDesc(memValues(st.mem, t)), st |-> st, backend |-> mode,
        paths |-> {}, threw |-> FALSE]
  ELSE IF mode = "file"
  THEN LET made == ensureDataDir(st.fs)
           sc == scanFiles(made, t, entries, [pastes |-> <<>>, paths |-> {}]) IN
       IF "readdir" \in made.fault \/ ~made.dir
       THEN [list |-> <<>>, st |-> [st EXCEPT !.fs = made], backend |-> mode,
             paths |-> {}, threw |-> FALSE]
       ELSE [list |-> sortDesc(sc.pastes), st |-> [st EXCEPT !.fs = sc.fs],
             backend |-> mode, paths |-> sc.paths, threw |-> FALSE]
  ELSE [list |-> <<>>, st |-> st, backend |-> mode, paths |-> {}, threw |-> FALSE]

\* deletePaste(id)
deletePaste(m, e, st, t, id) ==
  LET mode == dispatch(m, e) IN
  IF mode = "memory"
  THEN [ok |-> memIndex(st.mem, id) # 0,
        st |-> [st EXCEPT !.mem = mapDelete(st.mem, id)],
        backend |-> mode, paths |-> {}, threw |-> FALSE]
  ELSE IF mode = "file"
  THEN LET filePath == getPasteFilePath(id)
           u == fsUnlink(st.fs, filePath) IN
       [ok |-> u.ok, st |-> [st EXCEPT !.fs = u.fs],
        backend |-> mode, paths |-> {filePath}, threw |-> FALSE]
  ELSE IF ~redisReachable(e)
  THEN [ok |-> FALSE, st |-> st, backend |-> mode, paths |-> {}, threw |-> TRUE]
  ELSE [ok |-> redisKey(id) \in DOMAIN st.redis /\ redisLive(st.redis[redisKey(id)], t),
        st |-> [st EXCEPT !.redis = Without(st.redis, redisKey(id))],
        backend |-> mode, paths |-> {}, threw |-> FALSE]

\* getCurrentStorageMode()
getCurrentStorageMode(e) == getStorageMode(e)

\* ------------------------------------------------------- POST /api/paste
\* A member of the request body: undefined (absent), a string, or a value that
\* is neither (a number other than 0).
Absent == [kind |-> "undefined", str |-> Str("")]
NonString == [kind |-> "number", str |-> Str("")]
StringValue(s) == [kind |-> "string", str |-> s]

\* !v for a member of the body: undefined and "" are falsy.
Falsy(v) == v.kind = "undefined" \/ (v.kind = "string" /\ v.str.len = 0)

\* content.length > 500_000
MaxContentLength == 500000
\* title.slice(0, 200)
MaxTitleLength == 200
\* nanoid(10)
NanoidSize == 10

\* The names every object literal inherits from Object.prototype.
InheritedKeys == {"constructor", "toString", "valueOf", "hasOwnProperty", "__proto__"}

\* EXPIRY_OPTIONS[expiry as string] ?? null: the member of the table, a member
\* inherited from Object.prototype (not a number), or null for "never" and for
\* a name the object does not have.
EXPIRY_OPTIONS(expiry) ==
  LET key == IF expiry.kind = "string" THEN expiry.str.text ELSE expiry.kind IN
  CASE key = "never" -> Null
    [] key = "10m" -> 10 * 60 * 1000
    [] key = "1h" -> 60 * 60 * 1000
    [] key = "1d" -> 24 * 60 * 60 * 1000
    [] key = "1w" -> 7 * 24 * 60 * 60 * 1000
    [] key \in InheritedKeys -> NotNumber
    [] OTHER -> Null

\* POST(req) of module m at time t, with `id` what nanoid(10) returns: the
\* status and the id of the response, the paste passed to savePaste (None when
\* savePaste is not called), the stores afterwards, the backend and whether
\* savePaste threw.
POST(m, e, st, t, body, id) ==
  LET content == body.content
      rejected == [status |-> 400, id |-> None, paste |-> None, st |-> st,
                   backend |-> "none", paths |-> {}, threw |-> FALSE] IN
  IF Falsy(content) \/ content.kind # "string" \/ trim(content.str).len = 0
  THEN rejected
  ELSE IF content.str.len > MaxContentLength
  THEN rejected
  ELSE LET ttlMs == EXPIRY_OPTIONS(body.expiry)
           sliced == IF body.title.kind = "string"
                     THEN slice(body.title.str, MaxTitleLength) ELSE Str("")
           paste == [id |-> id,
                     title |-> IF sliced.len = 0 THEN Str("Untitled") ELSE sliced,
                     content |-> trim(content.str),
                     language |-> IF body.language.kind = "string"
                                  THEN body.language.str ELSE Str("plaintext"),
                     createdAt |-> t,
                     expiresAt |-> IF Truthy(ttlMs) THEN Plus(t, ttlMs) ELSE Null]
           s == savePaste(m, e, st, t, paste) IN
       IF s.threw
       THEN [status |-> 500, id |-> None, paste |-> Some(paste), st |-> s.st,
             backend |-> s.backend, paths |-> s.paths, threw |-> TRUE]
       ELSE [status |-> 201, id |-> Some(id), paste |-> Some(paste), st |-> s.st,
             backend |-> s.backend, paths |-> s.paths, threw |-> FALSE]

\* ------------------------------------------------------------------ state
VARIABLES
  env,           \* process.env: STORAGE_MODE, UPSTASH_REDIS_REST_URL, ..._TOKEN
  module,        \* the storage module the callers import as "@/lib/storage"
  now,           \* Date.now()
  memStore,      \* global.__pasteStore
  fs,            \* the file system: [files, dir, fault]
  redis,         \* the remote service's keys
  idPool,        \* the raw ids the callers use
  live,          \* history: per raw id, the paste last saved under it, until
                 \* deletePaste of that id
  firstBackend,  \* history: the backend that served the first facade call
  last,          \* history: the last facade call and what it returned
  calls,         \* the facade calls in flight, each at one of its awaits (in
                 \* SpecPair: the last call as each deployment answered it)
  lastWrite      \* history: the paste of the last write that reached the store
                 \* of the id, until a record of the id is removed

vars == <<env, module, now, memStore, fs, redis, idPool, live, firstBackend, last,
          calls, lastWrite>>

\* The stores as one value.
State == [mem |-> memStore, fs |-> fs, redis |-> redis]

EmptyMap == [x \in {} |-> 0]

\* ----------------------------------------------------------------- inputs
Titles == {Str("Untitled")}
Contents == {Str("hello")}
Languages == {Str("plaintext")}

\* The clock readings.
Times == {k * TickMs : k \in 1..MaxTicks}

\* The pastes a caller can pass to savePaste at time t: created at or before t,
\* expiresAt null or createdAt plus the time to live (one tick), so that a paste
\* can reach the store not yet expired, expiring this instant, or expired.
NewPastes(t, ids) ==
  {p \in [id : ids, title : Titles, content : Contents, language : Languages,
          createdAt : {c \in Times : c <= t},
          expiresAt : {c + TickMs : c \in Times} \cup {Null}] :
     p.expiresAt = Null \/ p.expiresAt = p.createdAt + TickMs}

\* The pastes created at the time of the call (createdAt: Date.now()).
FreshPastes(t, ids) == {p \in NewPastes(t, ids) : p.createdAt = t}

\* Raw ids of the main specification: a safe id, an id that differs from it only
\* in characters outside [A-Za-z0-9_-], and an id without any safe character.
Ids == { <<"a">>, <<".", ".", "/", "a">>, <<".">> }

\* Values of the three environment variables.
ModeValues == {Undef, "", "redis", "file", "memory", "Redis"}
CredValues == {Undef, "", "set"}
Envs == [mode : ModeValues, url : CredValues, token : CredValues]

\* The configurations the main specification starts from: each backend of each
\* module.
InitConfigs ==
  { [m |-> "three", e |-> [mode |-> "memory", url |-> Undef, token |-> Undef]],
    [m |-> "three", e |-> [mode |-> Undef, url |-> Undef, token |-> Undef]],
    [m |-> "three", e |-> [mode |-> Undef, url |-> "set", token |-> "set"]],
    [m |-> "two", e |-> [mode |-> Undef, url |-> Undef, token |-> Undef]],
    [m |-> "two", e |-> [mode |-> Undef, url |-> "set", token |-> "set"]] }

\* The records a backend holds at time t (what a faithful listing would see).
storedRecords(mode, st, t) ==
  IF mode = "memory" THEN {st.mem[i].val : i \in DOMAIN st.mem}
  ELSE IF mode = "file"
  THEN {JSONparse(st.fs.files[f].text) :
          f \in {g \in DOMAIN st.fs.files : parses(st.fs.files[g])}}
  ELSE {JSONparse(st.redis[k].val) : k \in {x \in DOMAIN st.redis : redisLive(st.redis[x], t)}}

\* The request bodies of the POST specification.
NoBody == [title |-> Absent, content |-> Absent, language |-> Absent, expiry |-> Absent]

NoCall ==
  [op |-> "none", id |-> <<>>, arg |-> None, ret |-> None, ok |-> FALSE,
   list |-> <<>>, backend |-> "none", paths |-> {}, fresh |-> FALSE,
   had |-> FALSE, prevDel |-> FALSE, stored |-> {}, threw |-> FALSE,
   body |-> NoBody, status |-> 0, resp |-> None]

InitStores ==
  /\ now = TickMs
  /\ memStore = <<>>
  /\ fs = [files |-> EmptyMap, dir |-> FALSE, fault |-> {}]
  /\ redis = EmptyMap
  /\ live = [id \in idPool |-> None]
  /\ firstBackend = "none"
  /\ last = NoCall
  /\ calls = <<>>
  /\ lastWrite = None

Init ==
  /\ idPool = Ids
  /\ \E c \in InitConfigs : module = c.m /\ env = c.e
  /\ InitStores

\* ---------------------------------------------------------------- actions
\* The stores after a facade call.
Commit(st) ==
  /\ memStore' = st.mem
  /\ fs' = st.fs
  /\ redis' = st.redis

\* firstBackend: the backend of the first call that did not throw.
Served(r) ==
  firstBackend' = IF firstBackend = "none" /\ ~r.threw THEN r.backend
                  ELSE firstBackend

\* Time passes; the remote service drops the keys whose TTL has elapsed.
Tick ==
  /\ now < MaxTicks * TickMs
  /\ now' = now + TickMs
  /\ redis' = redisExpire(redis, now + TickMs)
  /\ last' = [last EXCEPT !.fresh = FALSE]
  /\ UNCHANGED <<env, module, memStore, fs, idPool, live, firstBackend, calls, lastWrite>>

\* A caller awaits savePaste(p).
SavePaste(p) ==
  LET r == savePaste(module, env, State, now, p) IN
  /\ Commit(r.st)
  /\ live' = IF r.threw THEN live ELSE [live EXCEPT ![p.id] = Some(p)]
  /\ Served(r)
  /\ last' = [NoCall EXCEPT !.op = "save", !.id = p.id, !.arg = Some(p),
                            !.backend = r.backend, !.paths = r.paths,
                            !.fresh = TRUE, !.threw = r.threw]
  /\ UNCHANGED <<env, module, now, idPool, calls, lastWrite>>

\* A caller awaits getPaste(id).
GetPaste(id) ==
  LET r == getPaste(module, env, State, now, id) IN
  /\ Commit(r.st)
  /\ Served(r)
  /\ last' = [NoCall EXCEPT !.op = "get", !.id = id, !.ret = r.ret,
                            !.backend = r.backend, !.paths = r.paths,
                            !.fresh = TRUE, !.threw = r.threw]
  /\ UNCHANGED <<env, module, now, idPool, live, calls, lastWrite>>

\* A caller awaits deletePaste(id) (the three-way module only).
DeletePaste(id) ==
  LET r == deletePaste(module, env, State, now, id) IN
  /\ module = "three"
  /\ Commit(r.st)
  /\ live' = IF r.threw THEN live ELSE [live EXCEPT ![id] = None]
  /\ Served(r)
  /\ last' = [NoCall EXCEPT !.op = "delete", !.id = id, !.ok = r.ok,
                            !.backend = r.backend, !.paths = r.paths,
                            !.fresh = TRUE, !.threw = r.threw,
                            !.had = (getPaste(module, env, State, now, id).ret # None),
                            !.prevDel = (last.op = "delete" /\ last.id = id /\ last.ok)]
  /\ UNCHANGED <<env, module, now, idPool, calls, lastWrite>>

\* A caller awaits getAllPastes() (the three-way module only); fs.readdir
\* returns the directory entries in some order.
GetAllPastes ==
  \E entries \in Orders(readdir(fs)) :
    LET r == getAllPastes(module, env, State, now, entries) IN
    /\ module = "three"
    /\ Commit(r.st)
    /\ Served(r)
    /\ last' = [NoCall EXCEPT !.op = "list", !.list = r.list,
                              !.backend = r.backend, !.paths = r.paths,
                              !.fresh = TRUE,
                              !.stored = storedRecords(r.backend, State, now)]
    /\ UNCHANGED <<env, module, now, idPool, live, calls, lastWrite>>

\* The process environment is assigned between two calls.
SetEnv(e) ==
  /\ e # env
  /\ env' = e
  /\ last' = NoCall
  /\ UNCHANGED <<module, now, memStore, fs, redis, idPool, live, firstBackend, calls, lastWrite>>

\* The callers save pastes created at the time of the call, as POST does.
Next ==
  \/ Tick
  \/ \E p \in FreshPastes(now, idPool) : SavePaste(p)
  \/ \E id \in idPool : GetPaste(id)
  \/ \E id \in idPool : DeletePaste(id)
  \/ GetAllPastes

Spec == Init /\ [][Next]_vars

\* ------------------------------------------ specification: environment changes
\* One id, pastes that never expire, any environment, and the environment
\* reassigned between calls.
InitEnv ==
  /\ idPool = {<<"a">>}
  /\ module \in Modules
  /\ env \in Envs
  /\ InitStores

NextEnv ==
  \/ \E e \in Envs : SetEnv(e)
  \/ \E p \in {q \in NewPastes(now, idPool) : q.expiresAt = Null} : SavePaste(p)
  \/ \E id \in idPool : GetPaste(id)
  \/ \E id \in idPool : DeletePaste(id)
  \/ GetAllPastes

SpecEnv == InitEnv /\ [][NextEnv]_vars

\* ------------------------------------------- specification: identifier safety
\* The file backend driven with one raw id, drawn from every string of at most
\* MaxIdLen characters over PathChars ("NUL" is the null byte).
PathChars == {"a", "_", ".", "/", "\\", "NUL"}

InitPath ==
  /\ idPool \in {{id} : id \in SeqsUpTo(PathChars, MaxIdLen)}
  /\ module = "three"
  /\ env = [mode |-> "file", url |-> Undef, token |-> Undef]
  /\ InitStores

NextPath ==
  \/ Tick
  \/ \E p \in FreshPastes(now, idPool) : SavePaste(p)
  \/ \E id \in idPool : GetPaste(id)
  \/ \E id \in idPool : DeletePaste(id)
  \/ GetAllPastes

SpecPath == InitPath /\ [][NextPath]_vars

\* ---------------------------------------------- specification: remote TTL
\* The remote backend of either module with one id and pastes whose expiresAt
\* is null or any multiple of TickMs up to twice the last clock reading, so
\* that the time left at the write is negative, zero, a whole number of
\* seconds or a fraction of one.
TtlPastes(t, ids) ==
  [id : ids, title : Titles, content : Contents, language : Languages,
   createdAt : {c \in Times : c <= t},
   expiresAt : {k * TickMs : k \in 1..(2 * MaxTicks)} \cup {Null}]

InitRedis ==
  /\ idPool = {<<"a">>}
  /\ module \in Modules
  /\ env = [mode |-> Undef, url |-> "set", token |-> "set"]
  /\ InitStores

NextRedis ==
  \/ Tick
  \/ \E p \in TtlPastes(now, idPool) : SavePaste(p)
  \/ \E id \in idPool : GetPaste(id)
  \/ \E id \in idPool : DeletePaste(id)
  \/ GetAllPastes

SpecRedis == InitRedis /\ [][NextRedis]_vars

\* ------------------------------------- specification: failing file system
\* The file backend with two ids while fs calls start and stop failing and
\* files are damaged from outside the process.

\* The set of failing fs calls changes.
Fault(F) ==
  /\ F # fs.fault
  /\ fs' = [fs EXCEPT !.fault = F]
  /\ last' = NoCall
  /\ UNCHANGED <<env, module, now, memStore, redis, idPool, live, firstBackend, calls, lastWrite>>

\* The content of a file is replaced by bytes that are not JSON.
Corrupt(path) ==
  /\ parses(fs.files[path])
  /\ fs' = [fs EXCEPT !.files[path] = [text |-> <<>>, extra |-> 1, ino |-> @.ino]]
  /\ last' = NoCall
  /\ UNCHANGED <<env, module, now, memStore, redis, idPool, live, firstBackend, calls, lastWrite>>

\* The sets of failing calls: none, each call alone, all of them.
FaultSets == {{}} \cup {{c} : c \in FsCalls} \cup {FsCalls}

InitFault ==
  /\ idPool = {<<"a">>, <<"b">>}
  /\ module = "three"
  /\ env = [mode |-> "file", url |-> Undef, token |-> Undef]
  /\ InitStores

NextFault ==
  \/ Tick
  \/ \E p \in FreshPastes(now, idPool) : SavePaste(p)
  \/ \E id \in idPool : GetPaste(id)
  \/ \E id \in idPool : DeletePaste(id)
  \/ GetAllPastes
  \/ \E F \in FaultSets : Fault(F)
  \/ \E path \in DOMAIN fs.files : Corrupt(path)

SpecFault == InitFault /\ [][NextFault]_vars

\* ------------------------------------------ specification: damaged files
\* The three backends of the three-way module with two ids, no failing fs
\* call, and files damaged from outside the process.
InitCorrupt ==
  /\ idPool = {<<"a">>, <<"b">>}
  /\ module = "three"
  /\ env \in {c.e : c \in {d \in InitConfigs : d.m = "three"}}
  /\ InitStores

NextCorrupt ==
  \/ Tick
  \/ \E p \in FreshPastes(now, idPool) : SavePaste(p)
  \/ \E id \in idPool : GetPaste(id)
  \/ \E id \in idPool : DeletePaste(id)
  \/ GetAllPastes
  \/ \E path \in DOMAIN fs.files : Corrupt(path)

SpecCorrupt == InitCorrupt /\ [][NextCorrupt]_vars

\* --------------------------------------------- specification: POST handler
\* The POST handler of either module over each backend at one clock reading,
\* with one id for nanoid to return, while fs calls start and stop failing.

\* A string of n characters, k of them leading or trailing white space.
Text(n, k) == [len |-> n, ws |-> k, text |-> "text"]

TitleInputs ==
  {Absent, NonString, StringValue(Str("")), StringValue(Text(1, 0)),
   StringValue(Text(MaxTitleLength, 0)), StringValue(Text(MaxTitleLength + 1, 0))}

ContentInputs ==
  {Absent, NonString, StringValue(Str("")), StringValue(Text(2, 2)),
   StringValue(Text(1, 0)), StringValue(Text(3, 2)),
   StringValue(Text(MaxContentLength, 0)),
   StringValue(Text(MaxContentLength + 1, 0)),
   StringValue(Text(MaxContentLength + 1, 1))}

LanguageInputs == {Absent, StringValue(Str("python"))}

ExpiryInputs ==
  {Absent} \cup {StringValue(Str(x)) : x \in {"never", "10m", "1w", "2h", "constructor"}}

\* The sets of failing calls of this specification.
PostFaults == {{}, {"mkdir"}, {"writeFile"}, FsCalls}

\* The bodies: every title with every expiry for one accepted content, and
\* every content and every language with the other members absent.
Bodies ==
  {b \in [title : TitleInputs, content : ContentInputs,
          language : LanguageInputs, expiry : ExpiryInputs] :
     \/ b.content = StringValue(Text(1, 0)) /\ b.language = Absent
     \/ b.title = Absent /\ b.expiry = Absent}

\* A client awaits POST /api/paste.
Post(body) ==
  \E id \in idPool :
    LET r == POST(module, env, State, now, body, id) IN
    /\ Commit(r.st)
    /\ live' = IF r.status = 201 THEN [live EXCEPT ![id] = r.paste] ELSE live
    /\ firstBackend' = IF firstBackend = "none" /\ r.status = 201 THEN r.backend
                       ELSE firstBackend
    /\ last' = [NoCall EXCEPT !.op = "post", !.id = id, !.arg = r.paste,
                              !.backend = r.backend, !.paths = r.paths,
                              !.fresh = TRUE, !.threw = r.threw, !.body = body,
                              !.status = r.status, !.resp = r.id]
    /\ UNCHANGED <<env, module, now, idPool, calls, lastWrite>>

\* The configurations: the memory backend, the default, the remote backend,
\* and the remote backend forced without credentials (its requests fail).
PostEnvs ==
  { [mode |-> "memory", url |-> Undef, token |-> Undef],
    [mode |-> Undef, url |-> Undef, token |-> Undef],
    [mode |-> Undef, url |-> "set", token |-> "set"],
    [mode |-> "redis", url |-> Undef, token |-> Undef] }

InitPost ==
  /\ idPool = {[i \in 1..NanoidSize |-> "a"]}
  /\ module \in Modules
  /\ env \in PostEnvs
  /\ InitStores

NextPost ==
  \/ \E body \in Bodies : Post(body)
  \/ \E F \in PostFaults : Fault(F)

SpecPost == InitPost /\ [][NextPost]_vars

\* -------------------------------------- specification: concurrent calls
\* Up to MaxCalls facade calls on one id, in memory or file mode, interleaved
\* at their awaits.  In memory mode a call has no await before its effect
\* (memGet, memSet and the memory branch of getAllPastes are synchronous), so
\* it is one step.  In file mode every fs call is a step of its own, and
\* fs.writeFile is two: the open that truncates and the write of the data.
Idle ==
  [op |-> "idle", pc |-> "idle", id |-> <<>>, paste |-> None, fd |-> 0,
   entries |-> <<>>, acc |-> <<>>, t |-> 0, ret |-> None, list |-> <<>>,
   threw |-> FALSE]

\* Calls start in the order of their numbers.
CanBegin(c) ==
  /\ calls[c].op = "idle"
  /\ IF c = 1 THEN TRUE ELSE calls[c - 1].op # "idle"

Others == <<env, module, redis, idPool, live, firstBackend, last, now>>

\* savePaste(p) is called.
BeginSave(c, p) ==
  /\ CanBegin(c)
  /\ IF dispatch(module, env) = "memory"
     THEN /\ memStore' = memSet(memStore, p)
          /\ lastWrite' = Some(p)
          /\ calls' = [calls EXCEPT ![c] =
                        [Idle EXCEPT !.op = "save", !.pc = "done", !.id = p.id,
                                     !.paste = Some(p)]]
     ELSE /\ calls' = [calls EXCEPT ![c] =
                        [Idle EXCEPT !.op = "save", !.pc = "mkdir", !.id = p.id,
                                     !.paste = Some(p)]]
          /\ UNCHANGED <<memStore, lastWrite>>
  /\ UNCHANGED fs
  /\ UNCHANGED Others

\* fileSet: await ensureDataDir()
SaveMkdir(c) ==
  /\ calls[c].op = "save" /\ calls[c].pc = "mkdir"
  /\ fs' = ensureDataDir(fs)
  /\ calls' = [calls EXCEPT ![c].pc = "open"]
  /\ UNCHANGED <<memStore, lastWrite>>
  /\ UNCHANGED Others

\* fileSet: fs.writeFile opens the file.
SaveOpen(c) ==
  LET o == fsOpenTrunc(fs, getPasteFilePath(calls[c].id), c) IN
  /\ calls[c].op = "save" /\ calls[c].pc = "open"
  /\ fs' = o.fs
  /\ calls' = [calls EXCEPT ![c] =
                IF o.ok THEN [@ EXCEPT !.pc = "write", !.fd = o.fd]
                ELSE [@ EXCEPT !.pc = "done", !.threw = TRUE]]
  /\ UNCHANGED <<memStore, lastWrite>>
  /\ UNCHANGED Others

\* fileSet: fs.writeFile writes the data.
SaveWrite(c) ==
  LET filePath == getPasteFilePath(calls[c].id)
      landed == filePath \in DOMAIN fs.files /\ fs.files[filePath].ino = calls[c].fd IN
  /\ calls[c].op = "save" /\ calls[c].pc = "write"
  /\ fs' = fsWrite(fs, filePath, calls[c].fd, JSONstringify(calls[c].paste[1]))
  /\ lastWrite' = IF landed THEN calls[c].paste ELSE lastWrite
  /\ calls' = [calls EXCEPT ![c].pc = "done"]
  /\ UNCHANGED memStore
  /\ UNCHANGED Others

\* getPaste(id) is called.
BeginGet(c, id) ==
  /\ CanBegin(c)
  /\ IF dispatch(module, env) = "memory"
     THEN LET g == memGet(memStore, now, id) IN
          /\ memStore' = g.store
          /\ lastWrite' = IF g.store = memStore THEN lastWrite ELSE None
          /\ calls' = [calls EXCEPT ![c] =
                        [Idle EXCEPT !.op = "get", !.pc = "done", !.id = id,
                                     !.ret = g.ret]]
     ELSE /\ calls' = [calls EXCEPT ![c] =
                        [Idle EXCEPT !.op = "get", !.pc = "read", !.id = id]]
          /\ UNCHANGED <<memStore, lastWrite>>
  /\ UNCHANGED fs
  /\ UNCHANGED Others

\* fileGet: readFile resolves or rejects, then JSON.parse and the expiry test.
GetRead(c) ==
  LET content == fsReadFile(fs, getPasteFilePath(calls[c].id)) IN
  /\ calls[c].op = "get" /\ calls[c].pc = "read"
  /\ calls' = [calls EXCEPT ![c] =
                IF content = None \/ ~parses(content[1])
                THEN [@ EXCEPT !.pc = "done"]
                ELSE IF expiredOnGet(JSONparse(content[1].text), now)
                THEN [@ EXCEPT !.pc = "unlink"]
                ELSE [@ EXCEPT !.pc = "done", !.ret = Some(JSONparse(content[1].text))]]
  /\ UNCHANGED <<memStore, fs, lastWrite>>
  /\ UNCHANGED Others

\* fileGet: await fs.unlink(filePath).catch(() => {})
GetUnlink(c) ==
  LET u == fsUnlink(fs, getPasteFilePath(calls[c].id)) IN
  /\ calls[c].op = "get" /\ calls[c].pc = "unlink"
  /\ fs' = u.fs
  /\ lastWrite' = IF u.ok THEN None ELSE lastWrite
  /\ calls' = [calls EXCEPT ![c].pc = "done"]
  /\ UNCHANGED memStore
  /\ UNCHANGED Others

\* getAllPastes() is called.
BeginList(c) ==
  /\ CanBegin(c)
  /\ calls' = [calls EXCEPT ![c] =
                IF dispatch(module, env) = "memory"
                THEN [Idle EXCEPT !.op = "list", !.pc = "done",
                                  !.list = sortDesc(memValues(memStore, now))]
                ELSE [Idle EXCEPT !.op = "list", !.pc = "mkdir"]]
  /\ UNCHANGED <<memStore, fs, lastWrite>>
  /\ UNCHANGED Others

\* getAllPastes: await ensureDataDir()
ListMkdir(c) ==
  /\ calls[c].op = "list" /\ calls[c].pc = "mkdir"
  /\ fs' = ensureDataDir(fs)
  /\ calls' = [calls EXCEPT ![c].pc = "readdir"]
  /\ UNCHANGED <<memStore, lastWrite>>
  /\ UNCHANGED Others

\* The call after the loop has dealt with the first of its entries.
nextEntry(call) ==
  IF Len(call.entries) <= 1
  THEN [call EXCEPT !.pc = "done", !.entries = <<>>, !.list = sortDesc(call.acc)]
  ELSE [call EXCEPT !.pc = "scan", !.entries = Tail(call.entries)]

\* getAllPastes: readdir resolves; const now = Date.now()
ListReaddir(c) ==
  /\ calls[c].op = "list" /\ calls[c].pc = "readdir"
  /\ \E entries \in Orders({f \in readdir(fs) : endsWithJson(f)}) :
       calls' = [calls EXCEPT ![c] =
                  IF entries = <<>> THEN [@ EXCEPT !.pc = "done"]
                  ELSE [@ EXCEPT !.pc = "scan", !.entries = entries, !.t = now]]
  /\ UNCHANGED <<memStore, fs, lastWrite>>
  /\ UNCHANGED Others

\* getAllPastes: readFile of the next entry resolves or rejects, then
\* JSON.parse and the keep test.
ListRead(c) ==
  LET content == fsReadFile(fs, pathJoin(DATA_DIR, Head(calls[c].entries))) IN
  /\ calls[c].op = "list" /\ calls[c].pc = "scan"
  /\ calls' = [calls EXCEPT ![c] =
                IF content = None \/ ~parses(content[1])
                THEN nextEntry(@)
                ELSE IF keptOnList(JSONparse(content[1].text), calls[c].t)
                THEN nextEntry([@ EXCEPT !.acc = Append(@, JSONparse(content[1].text))])
                ELSE [@ EXCEPT !.pc = "scanUnlink"]]
  /\ UNCHANGED <<memStore, fs, lastWrite>>
  /\ UNCHANGED Others

\* getAllPastes: await fs.unlink(...).catch(() => {})
ListUnlink(c) ==
  LET u == fsUnlink(fs, pathJoin(DATA_DIR, Head(calls[c].entries))) IN
  /\ calls[c].op = "list" /\ calls[c].pc = "scanUnlink"
  /\ fs' = u.fs
  /\ lastWrite' = IF u.ok THEN None ELSE lastWrite
  /\ calls' = [calls EXCEPT ![c] = nextEntry(@)]
  /\ UNCHANGED memStore
  /\ UNCHANGED Others

\* Time passes.
TickConc ==
  /\ now < MaxTicks * TickMs
  /\ now' = now + TickMs
  /\ UNCHANGED <<env, module, memStore, fs, redis, idPool, live, firstBackend, last,
                 calls, lastWrite>>

InitConc ==
  /\ idPool = {<<"a">>}
  /\ module = "three"
  /\ env \in { [mode |-> "memory", url |-> Undef, token |-> Undef],
               [mode |-> "file", url |-> Undef, token |-> Undef] }
  /\ now = TickMs
  /\ memStore = <<>>
  /\ fs = [files |-> EmptyMap, dir |-> FALSE, fault |-> {}]
  /\ redis = EmptyMap
  /\ live = [id \in idPool |-> None]
  /\ firstBackend = "none"
  /\ last = NoCall
  /\ calls = [c \in 1..MaxCalls |-> Idle]
  /\ lastWrite = None

NextConc ==
  \/ TickConc
  \/ \E c \in 1..MaxCalls :
       \/ \E p \in NewPastes(now, idPool) : BeginSave(c, p)
       \/ SaveMkdir(c)
       \/ SaveOpen(c)
       \/ SaveWrite(c)
       \/ \E id \in idPool : BeginGet(c, id)
       \/ GetRead(c)
       \/ GetUnlink(c)
       \/ BeginList(c)
       \/ ListMkdir(c)
       \/ ListReaddir(c)
       \/ ListRead(c)
       \/ ListUnlink(c)

SpecConc == InitConc /\ [][NextConc]_vars

\* ---------------------------------- specification: two backends side by side
\* Two deployments of the three-way module, one with STORAGE_MODE=memory (its
\* store is memStore) and one with STORAGE_MODE=file (its store is fs), receive
\* the same facade calls at the same clock readings; no fs call fails.  The ids
\* are drawn from [A-Za-z0-9_-]+.  `calls` holds the last call as each of the
\* two answered it: calls[1] the memory deployment, calls[2] the file one.
MemEnv == [mode |-> "memory", url |-> Undef, token |-> Undef]
FileEnv == [mode |-> "file", url |-> Undef, token |-> Undef]

SafeIds == { <<"a">>, <<"b">> }

\* What a caller sees of a facade call.
Answer(op, id, r) ==
  [op |-> op, id |-> id,
   ret |-> IF op = "get" THEN r.ret ELSE None,
   ok |-> IF op = "delete" THEN r.ok ELSE FALSE,
   list |-> IF op = "list" THEN r.list ELSE <<>>,
   threw |-> r.threw]

\* Both deployments have answered: their stores and answers afterwards.
Both(op, id, rm, rf) ==
  /\ memStore' = rm.st.mem
  /\ fs' = rf.st.fs
  /\ calls' = <<Answer(op, id, rm), Answer(op, id, rf)>>
  /\ last' = [NoCall EXCEPT !.op = op, !.id = id, !.fresh = TRUE]
  /\ UNCHANGED <<env, module, now, redis, idPool, firstBackend, lastWrite>>

PairSave(p) ==
  /\ Both("save", p.id, savePaste(module, MemEnv, State, now, p),
                        savePaste(module, FileEnv, State, now, p))
  /\ live' = [live EXCEPT ![p.id] = Some(p)]

PairGet(id) ==
  /\ Both("get", id, getPaste(module, MemEnv, State, now, id),
                     getPaste(module, FileEnv, State, now, id))
  /\ UNCHANGED live

PairDelete(id) ==
  /\ Both("delete", id, deletePaste(module, MemEnv, State, now, id),
                        deletePaste(module, FileEnv, State, now, id))
  /\ live' = [live EXCEPT ![id] = None]

PairList ==
  \E entries \in Orders(readdir(fs)) :
    /\ Both("list", <<>>, getAllPastes(module, MemEnv, State, now, <<>>),
                          getAllPastes(module, FileEnv, State, now, entries))
    /\ UNCHANGED live

InitPair ==
  /\ idPool = SafeIds
  /\ module = "three"
  /\ env = MemEnv
  /\ InitStores

NextPair ==
  \/ Tick
  \/ \E p \in FreshPastes(now, idPool) : PairSave(p)
  \/ \E id \in idPool : PairGet(id)
  \/ \E id \in idPool : PairDelete(id)
  \/ PairList

SpecPair == InitPair /\ [][NextPair]_vars

\* ================================================================= claims
\* What getPaste(id) would return if it were called in the current state.
getNow(id) == getPaste(module, env, State, now, id).ret

\* C1: expiry correctness.  For every backend and every paste saved with
\* expiresAt = t and not deleted or overwritten since, getPaste(id) returns the
\* record at every time now < t and NotFound at every time now >= t, the
\* instant now = t included.
C1_ExpiryCorrectness ==
  \A id \in idPool :
    (live[id] # None /\ live[id][1].expiresAt # Null) =>
      /\ now < live[id][1].expiresAt => getNow(id) = live[id]
      /\ now >= live[id][1].expiresAt => getNow(id) = None

\* C2: never-expire.  For every backend, a paste saved with expiresAt null is
\* returned by getPaste(id) at every later time, as long as no deletePaste(id)
\* and no other savePaste with that id has happened.
C2_NeverExpire ==
  \A id \in idPool :
    (live[id] # None /\ live[id][1].expiresAt = Null) => getNow(id) = live[id]

\* C3: round trip.  For every backend and every paste p with expiresAt null or
\* later than the current time, savePaste(p) followed immediately by
\* getPaste(p.id) returns a record equal to p in all six fields.
C3_RoundTrip ==
  (last.op = "save" /\ last.fresh /\ ~last.threw) =>
    LET p == last.arg[1] IN
    (p.expiresAt = Null \/ p.expiresAt > now) =>
      /\ getNow(p.id) # None
      /\ \A f \in PasteFields : getNow(p.id)[1][f] = p[f]
      /\ getNow(p.id) = Some(p)

\* C3 witness: a paste with an expiry and an id with unsafe characters was just
\* saved by the file backend and getPaste returns it.
C3_Witness ==
  /\ last.op = "save" /\ last.fresh /\ last.backend = "file"
  /\ last.id = <<".", ".", "/", "a">>
  /\ last.arg[1].expiresAt # Null /\ last.arg[1].expiresAt > now
  /\ getNow(last.id) = last.arg

\* A path is a direct child of the managed directory data/pastes.
IsDirectChild(path) ==
  /\ Len(path) = Len(DATA_DIR) + 1
  /\ SubSeq(path, 1, Len(DATA_DIR)) = DATA_DIR

\* A file name is made of characters in [A-Za-z0-9_-] followed by ".json".
IsSafeName(name) ==
  /\ name # <<>>
  /\ name[Len(name)] = JsonExt
  /\ \A i \in 1..(Len(name) - 1) : name[i] \in SafeChars

\* C4: identifier safety.  For every raw id, every path the file backend reads,
\* writes or unlinks in getPaste, savePaste and deletePaste is a direct child of
\* data/pastes whose name is built from [A-Za-z0-9_-] plus ".json".
C4_IdentifierSafety ==
  (last.op \in {"get", "save", "delete"} /\ last.backend = "file") =>
    /\ last.paths # {}
    /\ \A path \in last.paths :
         IsDirectChild(path) /\ IsSafeName(path[Len(path)])

\* C4 witness: the file backend has served a call whose raw id is "../".
C4_Witness ==
  /\ last.op \in {"get", "save", "delete"} /\ last.backend = "file"
  /\ last.id = <<".", ".", "/">>
  /\ last.paths = {DATA_DIR \o << <<JsonExt>> >>}

\* The backend that serves the calls holds a record under id.
holds(id) ==
  LET mode == dispatch(module, env) IN
  IF mode = "memory" THEN \E i \in DOMAIN memStore : memStore[i].key = id
  ELSE IF mode = "file" THEN getPasteFilePath(id) \in DOMAIN fs.files
  ELSE redisKey(id) \in DOMAIN redis /\ redisLive(redis[redisKey(id)], now)

\* C5: idempotent delete.  For any backend that holds a record for id, two
\* consecutive deletePaste(id) calls return true and then false, and
\* getPaste(id) returns NotFound after the first call.
C5_IdempotentDelete ==
  /\ \A id \in idPool :
       (module = "three" /\ holds(id)) =>
         deletePaste(module, env, State, now, id).ok
  /\ last.op = "delete" =>
       /\ last.prevDel => ~last.ok
       /\ ~deletePaste(module, env, State, now, last.id).ok
       /\ getNow(last.id) = None

\* C5 witness: a second deletePaste(id) in a row has returned false after the
\* first returned true.
C5_Witness ==
  last.op = "delete" /\ last.prevDel /\ ~last.ok /\ getNow(last.id) = None

\* C6: deletePaste(id) returns true if and only if a record for id existed, that
\* is, getPaste(id) issued at the same instant would have returned a record; in
\* particular it returns false for an id whose record has already expired.
C6_DeleteTrueIffExisted ==
  last.op = "delete" => (last.ok <=> last.had)

\* The list has no element twice.
NoRepeats(list) ==
  \A i, j \in DOMAIN list : list[i] = list[j] => i = j

\* The records of last.stored that are not expired at time t.
Unexpired(stored, t) ==
  {p \in stored : p.expiresAt = Null \/ p.expiresAt > t}

\* C7 as stated: in memory and file mode getAllPastes returns exactly the stored
\* records not expired at the time of the call, each once, in strictly
\* descending createdAt order; in remote mode it returns the empty sequence.
C7_ListingStrict ==
  (last.op = "list" /\ last.fresh) =>
    IF last.backend = "redis" THEN last.list = <<>>
    ELSE /\ Range(last.list) = Unexpired(last.stored, now)
         /\ NoRepeats(last.list)
         /\ \A i \in 1..(Len(last.list) - 1) :
              last.list[i].createdAt > last.list[i + 1].createdAt

\* C7 as amended: the same with descending order that allows ties
\* (createdAt[i] >= createdAt[i+1]).
C7_Listing ==
  (last.op = "list" /\ last.fresh) =>
    IF last.backend = "redis" THEN last.list = <<>>
    ELSE /\ Range(last.list) = Unexpired(last.stored, now)
         /\ NoRepeats(last.list)
         /\ \A i \in 1..(Len(last.list) - 1) :
              last.list[i].createdAt >= last.list[i + 1].createdAt

\* C7 witness: a listing of two records created at different times, newest
\* first, that left out a stored record expired at the time of the call.
C7_Witness ==
  /\ last.op = "list" /\ last.fresh /\ last.backend # "redis"
  /\ Len(last.list) = 2
  /\ last.list[1].createdAt > last.list[2].createdAt
  /\ \E p \in last.stored : p.expiresAt # Null /\ p.expiresAt <= now

\* The selection rule of the claim: the override if it names a backend, else the
\* remote backend if both credentials are present and non-empty, else the file
\* backend.
RuleBackend(e) ==
  IF e.mode = "redis" \/ e.mode = "file" \/ e.mode = "memory" THEN e.mode
  ELSE IF e.url \notin {Undef, ""} /\ e.token \notin {Undef, ""} THEN "redis"
  ELSE "file"

\* C8 as stated: backend selection follows the rule in every storage module of
\* the repository.  (SetEnv forgets the last call, so the environment of the
\* last call is the current one.)
C8_SelectionEveryModule ==
  last.op # "none" => last.backend = RuleBackend(env)

\* C8 as amended: the three-way module follows the rule; the two-way module
\* src/lib/storage.ts ignores STORAGE_MODE and uses the remote backend when both
\* credentials are present and non-empty, the memory backend otherwise.
C8_Selection ==
  last.op # "none" =>
    /\ module = "three" => last.backend = RuleBackend(env)
    /\ module = "two" =>
         last.backend =
           IF env.url \notin {Undef, ""} /\ env.token \notin {Undef, ""}
           THEN "redis" ELSE "memory"

\* C8 witness: the three-way module served a call from the file backend because
\* STORAGE_MODE is "file", although both credentials are present.
C8_Witness ==
  /\ module = "three" /\ last.op = "save" /\ last.backend = "file"
  /\ env = [mode |-> "file", url |-> "set", token |-> "set"]

\* C9: single backend per process.  Every facade call is served by the backend
\* that the first call selected, whatever happens to the configuration
\* variables between calls.
C9_SingleBackend ==
  (last.op # "none" /\ ~last.threw) => last.backend = firstBackend

\* The record the serving backend stores under the key of id.
storedFor(m, e, st, t, id) ==
  LET mode == dispatch(m, e) IN
  IF mode = "memory" THEN mapGet(st.mem, id)
  ELSE IF mode = "file"
  THEN IF /\ getPasteFilePath(id) \in DOMAIN st.fs.files
          /\ parses(st.fs.files[getPasteFilePath(id)])
       THEN Some(JSONparse(st.fs.files[getPasteFilePath(id)].text)) ELSE None
  ELSE redisGet(st.redis, t, id)

\* C10: distinct ids never interfere.  No savePaste, deletePaste or getPaste on
\* an id a changes the record stored for a different id b or the result that
\* getPaste(b) returns, also in the file backend for ids that differ only in
\* characters outside [A-Za-z0-9_-].
C10_DistinctIdsIndependent ==
  [][ (last'.op \in {"save", "get", "delete"} /\ last'.fresh /\ now' = now) =>
        \A b \in idPool \ {last'.id} :
          /\ getPaste(module, env, State, now, b).ret
               = getPaste(module', env', State', now', b).ret
          /\ storedFor(module, env, State, now, b)
               = storedFor(module', env', State', now', b) ]_vars

\* The file named ".json" directly in data/pastes: the path of every raw id
\* that sanitizes to the empty string.
EmptyKeyPath == DATA_DIR \o << <<JsonExt>> >>

\* C11: empty sanitized key.  For a non-empty raw id whose sanitized form is
\* empty, getPaste returns NotFound, deletePaste returns false and savePaste
\* stores nothing (no later getPaste of such an id returns a record); no call of
\* the file backend for such an id reads, writes or unlinks the file ".json".
C11_EmptySanitizedKey ==
  /\ EmptyKeyPath \notin DOMAIN fs.files
  /\ (/\ last.op \in {"get", "save", "delete"} /\ last.backend = "file"
      /\ last.id # <<>> /\ sanitize(last.id) = <<>>) =>
       /\ last.ret = None
       /\ ~last.ok
       /\ getNow(last.id) = None
       /\ EmptyKeyPath \notin last.paths

\* Two raw ids name the same storage key: the same file in file mode, the same
\* id in memory and remote mode.
sameKey(a, b) ==
  IF dispatch(module, env) = "file" THEN getPasteFilePath(a) = getPasteFilePath(b)
  ELSE a = b

\* C12 as stated: immutability.  Once a record is stored under an id, no facade
\* operation replaces its content: whenever a record is stored for id before
\* and after a step, it is the same record.
C12_NoReplacement ==
  [][ \A id \in idPool :
        LET before == storedFor(module, env, State, now, id)
            after == storedFor(module', env', State', now', id) IN
        (before # None /\ after # None) => after = before ]_vars

\* C12 as amended: a stored record is never modified in place.  Every
\* getPaste(id) that returns a record returns, equal in all six fields, a paste
\* that was passed to savePaste under an id with the same storage key and not
\* deleted since; getPaste, deletePaste and getAllPastes leave each stored
\* record as it is or remove it.  (savePaste writes unconditionally and
\* replaces the record its key holds.)
C12_Immutability ==
  /\ [](\A id \in idPool :
          getNow(id) # None =>
            /\ \E b \in idPool : sameKey(id, b) /\ getNow(id) = live[b]
            /\ \A f \in PasteFields :
                 \E b \in idPool : /\ sameKey(id, b) /\ live[b] # None
                                    /\ getNow(id)[1][f] = live[b][1][f])
  /\ [][ last'.op \in {"get", "delete", "list"} =>
          \A id \in idPool :
            storedFor(module', env', State', now', id)
              \in {storedFor(module, env, State, now, id), None} ]_vars

\* C12 witness: getPaste("a") has returned, field for field, the paste that a
\* later savePaste("../a") put in place of the one saved under "a".
C12_Witness ==
  /\ last.op = "get" /\ last.id = <<"a">> /\ last.ret # None
  /\ live[<<"a">>] # None /\ last.ret # live[<<"a">>]
  /\ last.ret = live[<<".", ".", "/", "a">>]

\* The least whole number of seconds that covers ms milliseconds.
SecondsCovering(ms) ==
  CHOOSE n \in -(2 * MaxTicks * TickMs)..(2 * MaxTicks * TickMs) :
    n * 1000 >= ms /\ (n - 1) * 1000 < ms

\* C13: remote write TTL.  redisSet writes the key "paste:" + id with a TTL of
\* ceil((expiresAt - now) / 1000) seconds when expiresAt is present and that
\* value is positive; when expiresAt is absent or the value is <= 0 it writes
\* the key with no TTL, and a key without TTL is returned by getPaste at every
\* later time until it is deleted (or written again).
C13_RemoteWriteTTL ==
  /\ []((last.op = "save" /\ last.fresh /\ last.backend = "redis" /\ ~last.threw) =>
          LET p == last.arg[1]
              k == <<"paste:">> \o p.id
              secs == SecondsCovering(p.expiresAt - now) IN
          /\ k \in DOMAIN redis
          /\ JSONparse(redis[k].val) = p
          /\ redis[k].exat = IF p.expiresAt # Null /\ secs > 0
                              THEN now + secs * 1000 ELSE Null)
  /\ [][ \A id \in idPool :
          LET k == <<"paste:">> \o id IN
          (/\ k \in DOMAIN redis /\ redis[k].exat = Null
           /\ ~(now' = now /\ last'.op \in {"save", "delete"} /\ last'.id = id)) =>
            /\ k \in DOMAIN redis' /\ redis'[k] = redis[k]
            /\ getPaste(module', env', State', now', id).ret
                 = Some(JSONparse(redis[k].val)) ]_vars

\* C13 witness: the remote backend returns a paste at a time later than its
\* expiresAt, because the paste was written when its time left was <= 0 and so
\* without a TTL.
C13_Witness ==
  /\ last.op = "get" /\ last.backend = "redis" /\ last.ret # None
  /\ last.ret[1].expiresAt # Null /\ last.ret[1].expiresAt < now
  /\ redis[<<"paste:">> \o last.id].exat = Null

\* The file of id cannot be read as a record: it is missing, readFile fails or
\* its content is not JSON.
Unreadable(id) ==
  \/ getPasteFilePath(id) \notin DOMAIN fs.files
  \/ "readFile" \in fs.fault
  \/ ~parses(fs.files[getPasteFilePath(id)])

\* The facade call op of the file backend has just been made (the step is that
\* call).
FileCallStep(op) ==
  /\ last'.op = op /\ last'.fresh /\ last'.backend = "file"
  /\ now' = now /\ fs'.fault = fs.fault

C15_WritesPropagate ==
  (last.op = "post" /\ last.fresh /\ last.arg # None) =>
    /\ last.backend = "memory" => ~last.threw
    /\ last.backend = "file" =>
         (last.threw <=> ("writeFile" \in fs.fault \/ ~fs.dir))
    /\ (last.backend = "file" /\ "writeFile" \notin fs.fault /\ fs.dir) =>
         ~last.threw
    /\ last.backend = "redis" =>
         (last.threw <=> (env.url \in {Undef, ""} \/ env.token \in {Undef, ""}))
    /\ last.threw => (last.status = 500 /\ last.resp = None)
    /\ ~last.threw => (last.status = 201 /\ last.resp = Some(last.id))

\* C15 witness: in file mode only mkdir fails, the directory does not exist,
\* and POST has answered 500 without an id.
C15_Witness ==
  /\ last.op = "post" /\ last.fresh /\ last.backend = "file"
  /\ fs.fault = {"mkdir"} /\ ~fs.dir
  /\ last.threw /\ last.status = 500 /\ last.resp = None

\* C16: validation before storage.  POST calls savePaste only when content is
\* a string, non-empty after trimming and of length <= 500,000 (500,000 is
\* accepted, 500,001 is answered 400 without a storage call); every paste it
\* passes has a title of at most 200 characters that is "Untitled" when the
\* submitted title is absent or empty, and an expiresAt that is null or a time
\* strictly greater than createdAt.
C16_ValidationBeforeStorage ==
  last.op = "post" =>
    LET c == last.body.content
        valid == c.kind = "string" /\ c.str.len - c.str.ws > 0 /\ c.str.len <= 500000 IN
    /\ last.arg # None <=> valid
    /\ (c.kind = "string" /\ c.str.len = 500001) =>
         (last.status = 400 /\ last.arg = None)
    /\ last.arg # None =>
         LET p == last.arg[1] IN
         /\ p.title.len <= 200
         /\ (last.body.title.kind = "undefined" \/ last.body.title.str.len = 0) =>
              p.title = Str("Untitled")
         /\ p.expiresAt = Null \/ (IsNumber(p.expiresAt) /\ p.expiresAt > p.createdAt)

\* C17: lazy eviction on read.  In memory and file mode, whenever getPaste(id)
\* finds a stored record whose expiresAt is set and <= now, it removes the
\* record and returns NotFound, so that a deletePaste(id) that follows returns
\* false; a getPaste that returns a record removes nothing.
C17_LazyEviction ==
  [][ (/\ last'.op = "get" /\ last'.fresh /\ now' = now
       /\ last'.backend \in {"memory", "file"}) =>
        LET found == storedFor(module, env, State, now, last'.id) IN
        /\ (found # None /\ found[1].expiresAt # Null /\ found[1].expiresAt <= now) =>
             /\ last'.ret = None
             /\ storedFor(module', env', State', now', last'.id) = None
             /\ ~deletePaste(module', env', State', now', last'.id).ok
        /\ last'.ret # None => State' = State ]_vars

\* The files whose content is a record that is expired at time t.
ExpiredFiles(files, t) ==
  {f \in DOMAIN files :
     /\ parses(files[f])
     /\ JSONparse(files[f].text).expiresAt # Null
     /\ JSONparse(files[f].text).expiresAt <= t}

\* C18: effect of listing on stored state.  In file mode getAllPastes deletes
\* exactly the files whose record is expired at the time of the scan and leaves
\* every other file, the unparseable ones included, unchanged; in memory mode
\* it leaves the map unchanged; in remote mode it touches nothing.
C18_ListingEffect ==
  [][ (last'.op = "list" /\ last'.fresh /\ now' = now) =>
        /\ memStore' = memStore
        /\ redis' = redis
        /\ last'.backend # "file" => fs' = fs
        /\ last'.backend = "file" =>
             /\ DOMAIN fs'.files = DOMAIN fs.files \ ExpiredFiles(fs.files, now)
             /\ \A f \in DOMAIN fs'.files : fs'.files[f] = fs.files[f] ]_vars

\* C18 witness: a listing in file mode has deleted the file of an expired
\* record and left a file that is not JSON where it was.
C18_Witness ==
  /\ last.op = "list" /\ last.fresh /\ last.backend = "file"
  /\ \E p \in last.stored :
       /\ p.expiresAt # Null /\ p.expiresAt <= now
       /\ getPasteFilePath(p.id) \notin DOMAIN fs.files
  /\ \E f \in DOMAIN fs.files : ~parses(fs.files[f])

\* No savePaste is between its call and the end of its write.
SavesComplete ==
  \A c \in DOMAIN calls : calls[c].op = "save" => calls[c].pc = "done"

\* C19: per-key last-write-wins.  With concurrent savePaste calls for one id
\* in memory or file mode, once they have all completed the stored record is
\* exactly the paste, in full, whose underlying write completed last (as long
\* as no eviction has removed it); a concurrent getPaste returns one of the
\* pastes saved or NotFound.
C19_LastWriteWins ==
  /\ (SavesComplete /\ lastWrite # None) =>
       \A id \in idPool :
         /\ storedFor(module, env, State, now, id) = lastWrite
         /\ \A f \in PasteFields :
              storedFor(module, env, State, now, id)[1][f] = lastWrite[1][f]
  /\ \A c \in DOMAIN calls :
       (calls[c].op = "get" /\ calls[c].pc = "done" /\ calls[c].ret # None) =>
         \E d \in DOMAIN calls : calls[d].op = "save" /\ calls[c].ret = calls[d].paste

\* Call c takes the unlink step of its eviction and the file goes away.
EvictionUnlinks(c) ==
  /\ calls[c].pc \in {"unlink", "scanUnlink"}
  /\ calls'[c].pc # calls[c].pc
  /\ DOMAIN fs'.files # DOMAIN fs.files

\* C20: eviction never destroys a live record.  In file mode, under every
\* interleaving of getPaste, getAllPastes and savePaste on one id, the unlink
\* of a lazy eviction removes only a file whose record is expired: never a
\* record that a savePaste completing after the evicting call's read has
\* written and that is not expired.
C20_EvictionSparesLive ==
  [][ \A c \in DOMAIN calls :
        EvictionUnlinks(c) =>
          \A f \in DOMAIN fs.files \ DOMAIN fs'.files :
            f \in ExpiredFiles(fs.files, now) ]_vars

\* The result of getAllPastes() called in the current state, for each order in
\* which fs.readdir can return the entries.
listNow == {getAllPastes(module, env, State, now, entries) :
              entries \in Orders(readdir(fs))}

\* C21: get and list agree.  In memory and file mode, at every instant and for
\* every stored id, the record is in the result of getAllPastes if and only if
\* getPaste(id) at that instant returns it (the instant now = expiresAt
\* included), and getAllPastes never deletes a record that getPaste would
\* still return.
C21_GetListAgree ==
  (module = "three" /\ dispatch(module, env) \in {"memory", "file"}) =>
    \A p \in storedRecords(dispatch(module, env), State, now) :
      \A r \in listNow :
        /\ p \in Range(r.list) <=> getNow(p.id) = Some(p)
        /\ getNow(p.id) = Some(p) =>
             storedFor(module, env, r.st, now, p.id) = Some(p)

\* C22: backends are interchangeable.  For every sequence of savePaste,
\* getPaste, deletePaste and getAllPastes calls with ids from [A-Za-z0-9_-]+,
\* the same clock readings and no I/O failure, the memory backend and the file
\* backend give the same answer to every call: the same record or NotFound,
\* the same deletePaste boolean, the same list in the same order.
C22_Interchangeable ==
  calls # <<>> => calls[1] = calls[2]
====
